---------------------------- MODULE Spec2Model ----------------------------
(***************************************************************************)
(* A model of the payment compiler (src/transaction/payment.ts) and of the *)
(* path-find request builder and response processor                        *)
(* (src/ledger/pathfind.ts) of stoxum-lib.                                 *)
(*                                                                         *)
(* JavaScript values are represented as follows.                           *)
(*   - an optional object-valued field is a sequence of length 0 (the      *)
(*     field is undefined) or 1 (the field's value);                       *)
(*   - an optional string-valued field is a string, Undefined when unset;  *)
(*   - a decimal string ("5", "0.01", "-1", "9999999999999999e80") is a    *)
(*     record [neg, digits, exp] denoting (+/-) digits * 10^exp, so that   *)
(*     the comparisons and the unit conversion of bignumber.js are         *)
(*     computed on the digits and not on machine integers.                 *)
(***************************************************************************)
EXTENDS Integers, Sequences, FiniteSets, TLC

(***************************************************************************)
(* Bounds of the model.                                                    *)
(***************************************************************************)
\* amounts of an intent take the values "1" .. MaxValue
MaxValue == 2
\* the route-discovery response carries at most MaxAlts alternatives
MaxAlts == 2

Undefined == "undefined"
XRP == "XRP"

Present(opt) == opt # <<>>
Get(opt) == opt[1]

(***************************************************************************)
(* Decimal numbers (bignumber.js).                                         *)
(***************************************************************************)
Dec(neg, digits, exp) == [neg |-> neg, digits |-> digits, exp |-> exp]
DecZero == Dec(FALSE, <<>>, 0)

\* the decimal digits of a natural number, most significant first
RECURSIVE DigitsOf(_)
DigitsOf(n) == IF n < 10 THEN <<n>> ELSE Append(DigitsOf(n \div 10), n % 10)

\* the decimal string of a natural number, read as a decimal
DecOfNat(n) == Dec(FALSE, DigitsOf(n), 0)

RECURSIVE StripLeadingZeros(_)
StripLeadingZeros(ds) ==
  IF ds # <<>> /\ Head(ds) = 0 THEN StripLeadingZeros(Tail(ds)) ELSE ds

RECURSIVE TrailingZeros(_)
TrailingZeros(ds) ==
  IF ds # <<>> /\ ds[Len(ds)] = 0
  THEN 1 + TrailingZeros(SubSeq(ds, 1, Len(ds) - 1))
  ELSE 0

\* the canonical form of a decimal: no leading zero, no trailing zero
Normalize(d) ==
  LET lead == StripLeadingZeros(d.digits)
      k == TrailingZeros(lead)
  IN IF lead = <<>> THEN DecZero
     ELSE Dec(d.neg, SubSeq(lead, 1, Len(lead) - k), d.exp + k)

\* digit i of a digit sequence read as padded with zeros on the right
DigitAt(ds, i) == IF i <= Len(ds) THEN ds[i] ELSE 0

RECURSIVE LexLess(_, _, _, _)
LexLess(x, y, i, n) ==
  IF i > n THEN FALSE
  ELSE IF DigitAt(x, i) # DigitAt(y, i) THEN DigitAt(x, i) < DigitAt(y, i)
  ELSE LexLess(x, y, i + 1, n)

\* |a| < |b| for canonical a and b
MagLess(a, b) ==
  IF b.digits = <<>> THEN FALSE
  ELSE IF a.digits = <<>> THEN TRUE
  ELSE LET oa == Len(a.digits) + a.exp
           ob == Len(b.digits) + b.exp
           n == IF Len(a.digits) > Len(b.digits) THEN Len(a.digits)
                ELSE Len(b.digits)
       IN IF oa # ob THEN oa < ob ELSE LexLess(a.digits, b.digits, 1, n)

DecLess(x, y) ==
  LET a == Normalize(x)
      b == Normalize(y)
  IN IF a.neg /\ ~b.neg THEN TRUE
     ELSE IF ~a.neg /\ b.neg THEN FALSE
     ELSE IF a.neg THEN MagLess(b, a)
     ELSE MagLess(a, b)

\* BigNumber.eq: numerical equality
DecEq(x, y) == Normalize(x) = Normalize(y)
\* BigNumber.greaterThanOrEqualTo
DecGE(x, y) == ~DecLess(x, y)

RECURSIVE IncDigits(_)
IncDigits(ds) ==
  IF ds = <<>> THEN <<1>>
  ELSE IF ds[Len(ds)] < 9
       THEN [ds EXCEPT ![Len(ds)] = @ + 1]
       ELSE Append(IncDigits(SubSeq(ds, 1, Len(ds) - 1)), 0)

\* BigNumber.floor: the largest integer not above d
DecFloor(x) ==
  LET d == Normalize(x)
      keep == Len(d.digits) + d.exp
      int == IF keep > 0 THEN SubSeq(d.digits, 1, keep) ELSE <<>>
  IN IF d.exp >= 0 THEN d
     ELSE IF d.neg THEN Normalize(Dec(TRUE, IncDigits(int), 0))
     ELSE Normalize(Dec(FALSE, int, 0))

\* BigNumber.times(10^k), k may be negative
DecShift(x, k) == Normalize([x EXCEPT !.exp = @ + k])


(***************************************************************************)
(* Amount encoding (common/toStoxumdAmount).                               *)
(***************************************************************************)
\* an amount of the library: {currency, value, counterparty}; value is an
\* optional field (<<>> when the object carries no value, <<v>> otherwise)
Amount(currency, value, counterparty) ==
  [currency |-> currency, value |-> value, counterparty |-> counterparty]

\* xrpToDrops: (new BigNumber(xrp)).times(1000000.0).floor().toString()
xrpToDrops(value) == DecFloor(DecShift(value, 6))

\* a stoxumd amount is a decimal string of drops (native currency) or an
\* object {currency, issuer, value}; value holds the string of a string
\* amount, and the optional value field of an object
StringAmount(drops) ==
  [kind |-> "string", value |-> <<drops>>, currency |-> Undefined,
   issuer |-> Undefined]
ObjectAmount(currency, issuer, value) ==
  [kind |-> "object", value |-> value, currency |-> currency,
   issuer |-> issuer]

\* new BigNumber(undefined) throws: a native amount without a value cannot
\* be converted into drops
xrpToDropsThrows(amount) == amount.currency = XRP /\ ~Present(amount.value)

\* defined for the amounts xrpToDrops does not throw on
toStoxumdAmount(amount) ==
  IF amount.currency = XRP
  THEN StringAmount(xrpToDrops(Get(amount.value)))
  ELSE ObjectAmount(amount.currency, amount.counterparty, amount.value)

(***************************************************************************)
(* transaction/payment.ts                                                  *)
(***************************************************************************)
\* common/txflags: txFlags.Payment
NoStoxumDirect == 65536
PartialPayment == 131072
LimitQuality == 262144

RECURSIVE BitOr(_, _)
BitOr(a, b) ==
  IF a = 0 THEN b
  ELSE IF b = 0 THEN a
  ELSE (IF a % 2 = 1 \/ b % 2 = 1 THEN 1 ELSE 0) + 2 * BitOr(a \div 2, b \div 2)

RECURSIVE BitAnd(_, _)
BitAnd(a, b) ==
  IF a = 0 \/ b = 0 THEN 0
  ELSE (IF a % 2 = 1 /\ b % 2 = 1 THEN 1 ELSE 0) + 2 * BitAnd(a \div 2, b \div 2)

Adjustment(address, tag, amount, minAmount, maxAmount) ==
  [address |-> address, tag |-> tag, amount |-> amount,
   minAmount |-> minAmount, maxAmount |-> maxAmount]

isMaxAdjustment(source) == Present(source.maxAmount)

isMinAdjustment(destination) == Present(destination.minAmount)

\* a slip: one native side is taken for an all-native payment
isXRPToXRPPayment_either(payment) ==
  LET sourceCurrency ==
        IF isMaxAdjustment(payment.source)
        THEN Get(payment.source.maxAmount).currency
        ELSE Get(payment.source.amount).currency
      destinationCurrency ==
        IF isMinAdjustment(payment.destination)
        THEN Get(payment.destination.minAmount).currency
        ELSE Get(payment.destination.amount).currency
  IN sourceCurrency = XRP \/ destinationCurrency = XRP

isXRPToXRPPayment(payment) ==
  LET sourceCurrency ==
        IF isMaxAdjustment(payment.source)
        THEN Get(payment.source.maxAmount).currency
        ELSE Get(payment.source.amount).currency
      destinationCurrency ==
        IF isMinAdjustment(payment.destination)
        THEN Get(payment.destination.minAmount).currency
        ELSE Get(payment.destination.amount).currency
  IN sourceCurrency = XRP /\ destinationCurrency = XRP

\* a slip: the currency is not looked at
isIOUWithoutCounterparty_anyCurrency(amount) ==
  /\ Present(amount)
  /\ Get(amount).counterparty = Undefined

\* the argument is an optional amount (adjustment[key])
isIOUWithoutCounterparty(amount) ==
  /\ Present(amount)
  /\ Get(amount).currency # XRP
  /\ Get(amount).counterparty = Undefined

AmountKeys == {"amount", "minAmount", "maxAmount"}

\* lines 65-67: one key of one adjustment
encodeKey(adjustment, key) ==
  IF isIOUWithoutCounterparty(adjustment[key])
  THEN <<[Get(adjustment[key]) EXCEPT !.counterparty = adjustment.address]>>
  ELSE adjustment[key]

\* the inner forEach over ['amount', 'minAmount', 'maxAmount']
encodeAdjustment(adjustment) ==
  [adjustment EXCEPT !.amount = encodeKey(adjustment, "amount"),
                     !.minAmount = encodeKey(adjustment, "minAmount"),
                     !.maxAmount = encodeKey(adjustment, "maxAmount")]

applyAnyCounterpartyEncoding(payment) ==
  [payment EXCEPT !.source = encodeAdjustment(payment.source),
                  !.destination = encodeAdjustment(payment.destination)]

maxXRPValue == Dec(FALSE, <<1>>, 11)
maxIOUValue == Dec(FALSE, <<9, 9, 9, 9, 9, 9, 9, 9, 9, 9, 9, 9, 9, 9, 9, 9>>, 80)

\* a slip: the native ceiling is used for every currency
createMaximalAmount_nativeCeiling(amount) ==
  [amount EXCEPT !.value = <<maxXRPValue>>]

createMaximalAmount(amount) ==
  LET maxValue == IF amount.currency = XRP THEN maxXRPValue ELSE maxIOUValue
  IN [amount EXCEPT !.value = <<maxValue>>]

\* _.cloneDeep: a fresh object graph; no write to the copy reaches the
\* original (shares = FALSE)
cloneDeep(obj) == [copy |-> obj, shares |-> FALSE]

\* utils.convertMemo, an external encoder
convertMemo(memo) == [Memo |-> memo]

\* JSON.parse of the paths string; a JSON text is modelled as
\* [json |-> the value it denotes]
JSONparse(text) == text.json

NoError == "none"
AddressMismatch == "ValidationError: address must match payment.source.address"
AmbiguousAdjustment ==
  "ValidationError: payment must specify either (source.maxAmount and destination.amount) or (source.amount and destination.minAmount)"
XRPPartial == "ValidationError: XRP to XRP payments cannot be partial payments"

IsValidationError(e) == e \in {AddressMismatch, AmbiguousAdjustment, XRPPartial}

\* lines 112-160: the transaction object, once the checks of lines 84-95
\* have passed
buildTxJSON(payment) ==
  LET destinationAmount ==
        IF isMinAdjustment(payment.destination)
        THEN Get(payment.destination.minAmount)
        ELSE Get(payment.destination.amount)
      sourceAmount ==
        IF isMaxAdjustment(payment.source)
        THEN Get(payment.source.maxAmount)
        ELSE Get(payment.source.amount)
      amount ==
        IF isMinAdjustment(payment.destination) /\ ~isXRPToXRPPayment(payment)
        THEN createMaximalAmount(destinationAmount)
        ELSE destinationAmount
      flags1 == IF payment.noDirectStoxum = <<TRUE>>
                THEN BitOr(0, NoStoxumDirect) ELSE 0
      flags2 == IF payment.limitQuality = <<TRUE>>
                THEN BitOr(flags1, LimitQuality) ELSE flags1
      flags3 == IF ~isXRPToXRPPayment(payment)
                   /\ (payment.allowPartialPayment = <<TRUE>>
                       \/ isMinAdjustment(payment.destination))
                THEN BitOr(flags2, PartialPayment) ELSE flags2
  IN [TransactionType |-> "Payment",
      Account |-> payment.source.address,
      Destination |-> payment.destination.address,
      Amount |-> toStoxumdAmount(amount),
      Flags |-> flags3,
      InvoiceID |-> payment.invoiceID,
      SourceTag |-> payment.source.tag,
      DestinationTag |-> payment.destination.tag,
      Memos |-> IF Present(payment.memos)
                THEN <<[i \in 1..Len(Get(payment.memos)) |->
                          convertMemo(Get(payment.memos)[i])]>>
                ELSE <<>>,
      SendMax |-> IF ~isXRPToXRPPayment(payment)
                  THEN <<toStoxumdAmount(sourceAmount)>> ELSE <<>>,
      DeliverMin |-> IF ~isXRPToXRPPayment(payment)
                        /\ isMinAdjustment(payment.destination)
                     THEN <<toStoxumdAmount(destinationAmount)>> ELSE <<>>,
      Paths |-> IF ~isXRPToXRPPayment(payment) /\ Present(payment.paths)
                THEN <<JSONparse(Get(payment.paths))>> ELSE <<>>]

\* a slip: only the "both set" combination is rejected
ambiguousAdjustment_bothOnly(payment) ==
  isMaxAdjustment(payment.source) /\ isMinAdjustment(payment.destination)

\* lines 88-92: the condition of the ambiguous-adjustment error
ambiguousAdjustment(payment) ==
  \/ (isMaxAdjustment(payment.source) /\ isMinAdjustment(payment.destination))
  \/ (~isMaxAdjustment(payment.source) /\ ~isMinAdjustment(payment.destination))

\* the result of the call: the error thrown (NoError when it returns), the
\* object returned, the working copy and the caller's object after the call
createPaymentTransaction(addr, paymentArgument) ==
  LET clone == cloneDeep(paymentArgument)
      payment == applyAnyCounterpartyEncoding(clone.copy)
      argument == IF clone.shares THEN payment ELSE paymentArgument
      error ==
        IF addr # payment.source.address THEN AddressMismatch
        ELSE IF ambiguousAdjustment(payment) THEN AmbiguousAdjustment
        ELSE IF isXRPToXRPPayment(payment)
                /\ payment.allowPartialPayment = <<TRUE>>
             THEN XRPPartial
        ELSE NoError
  IN [error |-> error,
      txJSON |-> IF error = NoError THEN <<buildTxJSON(payment)>> ELSE <<>>,
      payment |-> payment,
      argument |-> argument]


(***************************************************************************)
(* ledger/pathfind.ts                                                      *)
(***************************************************************************)
\* ledger/utils renameCounterpartyToIssuer, on an entry of source.currencies
renameCounterpartyToIssuer(entry) ==
  [currency |-> entry.currency, issuer |-> entry.counterparty]

\* the destination amount of a query: {currency, counterparty, value}, where
\* value is optional in two ways: the object may have no key "value"
\* (hasValueKey = FALSE), or have the key with the value undefined
\* (hasValueKey = TRUE, value = <<>>)
DestinationAmount(currency, hasValueKey, value, counterparty) ==
  [currency |-> currency, hasValueKey |-> hasValueKey, value |-> value,
   counterparty |-> counterparty]

\* lines 25-28: _.assign({value: '-1'}, pathfind.destination.amount): every
\* own key of the source object is copied, a key "value" holding undefined
\* included, so '-1' survives only when the key is missing
SentinelValue == Dec(TRUE, <<1>>, 0)
destinationAmountOf(pathfind) ==
  LET a == pathfind.destination.amount
  IN Amount(a.currency,
            IF a.hasValueKey THEN a.value ELSE <<SentinelValue>>,
            a.counterparty)

\* lines 35-43 and 54-56: a blank issuer of an object amount becomes the
\* given account
withIssuer(amount, account) ==
  IF amount.kind = "object" /\ amount.issuer = Undefined
  THEN [amount EXCEPT !.issuer = account]
  ELSE amount

\* a slip: the test of destination.amount.value is inverted
bothAmountsFixed_inverted(pathfind) ==
  Present(pathfind.source.amount) /\ ~Present(pathfind.destination.amount.value)

\* lines 48-52: the condition of the ValidationError of requestPathFind
bothAmountsFixed(pathfind) ==
  Present(pathfind.source.amount) /\ Present(pathfind.destination.amount.value)

\* lines 29-57: the request object
buildRequest(pathfind) ==
  [command |-> "ripple_path_find",
   source_account |-> pathfind.source.address,
   destination_account |-> pathfind.destination.address,
   destination_amount |->
     withIssuer(toStoxumdAmount(destinationAmountOf(pathfind)),
                pathfind.destination.address),
   source_currencies |->
     IF Present(pathfind.source.currencies)
        /\ Len(Get(pathfind.source.currencies)) > 0
     THEN <<[i \in 1..Len(Get(pathfind.source.currencies)) |->
               renameCounterpartyToIssuer(Get(pathfind.source.currencies)[i])]>>
     ELSE <<>>,
   send_max |->
     IF Present(pathfind.source.amount)
     THEN <<withIssuer(toStoxumdAmount(Get(pathfind.source.amount)),
                       pathfind.source.address)>>
     ELSE <<>>]

\* the synchronous part of requestPathFind: the error thrown, or the request
\* handed to connection.request
requestPathFind(pathfind) ==
  IF xrpToDropsThrows(destinationAmountOf(pathfind))
  THEN [error |-> "BigNumberError", request |-> <<>>]
  ELSE IF bothAmountsFixed(pathfind)
  THEN [error |-> "ValidationError", request |-> <<>>]
  ELSE [error |-> NoError, request |-> <<buildRequest(pathfind)>>]

\* result: the response of the server, [alternatives, destination_account,
\* destination_currencies, destination_amount (optional)]
addParams(request, result) ==
  [alternatives |-> result.alternatives,
   destination_account |-> result.destination_account,
   destination_currencies |-> result.destination_currencies,
   source_account |-> request.source_account,
   source_currencies |-> request.source_currencies,
   destination_amount |->
     IF Present(result.destination_amount)
     THEN Get(result.destination_amount)
     ELSE request.destination_amount]

Alternative(paths_computed, source_amount) ==
  [paths_computed |-> paths_computed, source_amount |-> source_amount]

\* a slip: greaterThan for greaterThanOrEqualTo
hasEnoughXrp_strict(xrpBalance, destinationAmount) ==
  DecLess(Get(destinationAmount.value), xrpBalance)

\* line 67: new BigNumber(xrpBalance).greaterThanOrEqualTo(destinationAmount)
hasEnoughXrp(xrpBalance, destinationAmount) ==
  DecGE(xrpBalance, Get(destinationAmount.value))

addDirectXrpPath(paths, xrpBalance) ==
  IF hasEnoughXrp(xrpBalance, paths.destination_amount)
  THEN [paths EXCEPT !.alternatives =
          <<Alternative(<<>>, paths.destination_amount)>> \o @]
  ELSE paths

isStoxumdIOUAmount(amount) ==
  amount.kind = "object" /\ amount.currency # Undefined /\ amount.currency # XRP

Includes(list, x) == Present(list) /\ \E i \in 1..Len(Get(list)) : Get(list)[i] = x

\* a slip: the accepted currencies of the destination are not looked at
skipsDirectXrpPath_iouOnly(paths) ==
  isStoxumdIOUAmount(paths.destination_amount)

\* lines 85-86: the condition under which no balance is looked up
skipsDirectXrpPath(paths) ==
  \/ isStoxumdIOUAmount(paths.destination_amount)
  \/ ~Includes(paths.destination_currencies, XRP)

\* a slip: the type of source_amount is not tested
keepsAlternative_anyType(pathfind, alt) ==
  /\ Present(pathfind.source.amount)
  /\ DecEq(Get(alt.source_amount.value),
           Get(Get(pathfind.source.amount).value))

\* lines 98-104: the predicate of _.filter (every alternative of the model
\* carries a source_amount)
keepsAlternative(pathfind, alt) ==
  /\ Present(pathfind.source.amount)
  /\ alt.source_amount.kind # "string"
  /\ DecEq(Get(alt.source_amount.value),
           Get(Get(pathfind.source.amount).value))

filterSourceFundsLowPaths(pathfind, paths) ==
  IF Present(pathfind.source.amount)
     /\ ~Present(pathfind.destination.amount.value)
  THEN [paths EXCEPT !.alternatives =
          LET Keep(alt) == keepsAlternative(pathfind, alt)
          IN SelectSeq(@, Keep)]
  ELSE paths

\* ledger/parse/amount: drops become a native amount, issuer becomes
\* counterparty
parseAmount(amount) ==
  IF amount.kind = "string"
  THEN Amount(XRP, <<DecShift(Get(amount.value), -6)>>, Undefined)
  ELSE Amount(amount.currency, amount.value, amount.issuer)

\* ledger/parse/pathfind: one route per alternative, in the same order
parsePathfind(paths) ==
  [i \in 1..Len(paths.alternatives) |->
     [source |-> [address |-> paths.source_account,
                  maxAmount |-> parseAmount(paths.alternatives[i].source_amount)],
      destination |-> [address |-> paths.destination_account,
                       amount |-> parseAmount(paths.destination_amount)],
      paths |-> paths.alternatives[i].paths_computed]]

NoPathError(reason, currency, accepted) ==
  [name |-> "NotFoundError", reason |-> reason, currency |-> currency,
   accepted |-> accepted]

\* a slip: the negation of _.includes is lost
destinationRejectsCurrency_inverted(pathfind, paths) ==
  /\ Present(paths.destination_currencies)
  /\ Includes(paths.destination_currencies,
              pathfind.destination.amount.currency)

\* lines 113-115: the first diagnosis of an empty result
destinationRejectsCurrency(pathfind, paths) ==
  /\ Present(paths.destination_currencies)
  /\ ~Includes(paths.destination_currencies,
               pathfind.destination.amount.currency)

\* the routes returned, or the error thrown
formatResponse(pathfind, paths) ==
  IF Len(paths.alternatives) > 0
  THEN [error |-> <<>>, routes |-> <<parsePathfind(paths)>>]
  ELSE IF destinationRejectsCurrency(pathfind, paths)
  THEN [error |-> <<NoPathError("does not accept",
                                pathfind.destination.amount.currency,
                                Get(paths.destination_currencies))>>,
        routes |-> <<>>]
  ELSE IF Present(paths.source_currencies)
          /\ Len(Get(paths.source_currencies)) > 0
  THEN [error |-> <<NoPathError("source_currencies", Undefined, <<>>)>>,
        routes |-> <<>>]
  ELSE [error |-> <<NoPathError("funds", Undefined, <<>>)>>, routes |-> <<>>]

(***************************************************************************)
(* State.                                                                  *)
(***************************************************************************)
VARIABLES
  \* preparePayment
  address,          \* the address argument
  paymentArgument,  \* the caller's payment object
  payPc,            \* "idle", "preparing", "prepared", "failed"
  payError,         \* the error the call failed with, NoError otherwise
  txJSON,           \* optional: the object createPaymentTransaction returned
  payment,          \* optional: the working copy after counterparty encoding
  prepareCalls,     \* number of calls of utils.prepareTransaction
  \* getPaths
  pathfind,         \* the pathfind argument
  ledgerBalance,    \* what getXRPBalance answers for the source account
  pc,               \* "idle", "awaitPaths", "direct", "awaitBalance",
                    \* "filter", "format", "done", "failed"
  request,          \* optional: the request handed to connection.request
  received,         \* optional: a copy, taken on receipt, of the alternatives
                    \* the server sent
  response,         \* optional: the alternatives array of the server's
                    \* response object, as it is now
  paths,            \* optional: the object addParams returned, as it is now
  routes,           \* optional: the value getPaths resolves with
  error,            \* optional: the error getPaths rejects with
  trips             \* the requests sent, their outcomes and the stages run,
                    \* in order

payVars ==
  <<address, paymentArgument, payPc, payError, txJSON, payment, prepareCalls>>

pathVars ==
  <<pathfind, ledgerBalance, pc, request, received, response, paths, routes,
    error, trips>>

vars == <<payVars, pathVars>>

(***************************************************************************)
(* Inputs of preparePayment: the objects validate.preparePayment accepts.  *)
(* A source adjustment carries amount or maxAmount, a destination          *)
(* adjustment amount or minAmount.                                         *)
(***************************************************************************)
Addresses == {"rSource", "rDest"}
Issuer == "rIssuer"
Values == {DecOfNat(v) : v \in 1..MaxValue}

Amounts ==
  {Amount(XRP, <<v>>, Undefined) : v \in Values}
    \cup {Amount("USD", <<v>>, cp) : v \in Values, cp \in {Undefined, Issuer}}

SourceAdjustments(tag) ==
  {Adjustment(a, tag, <<m>>, <<>>, <<>>) : a \in Addresses, m \in Amounts}
    \cup {Adjustment(a, tag, <<>>, <<>>, <<m>>) : a \in Addresses, m \in Amounts}

DestinationAdjustments(tag) ==
  {Adjustment(a, tag, <<m>>, <<>>, <<>>) : a \in Addresses, m \in Amounts}
    \cup {Adjustment(a, tag, <<>>, <<m>>, <<>>) : a \in Addresses, m \in Amounts}

SomePaths == [json |-> <<<<[account |-> Issuer]>>>>]

\* the optional fields that are copied through: none of them, or all
Extras ==
  {[invoiceID |-> Undefined, sourceTag |-> <<>>, destinationTag |-> <<>>,
    memos |-> <<>>],
   [invoiceID |-> "INVOICE", sourceTag |-> <<1>>, destinationTag |-> <<2>>,
    memos |-> << <<[data |-> "memo"]>> >>]}

\* no getPaths call is under way
PathIdle ==
  /\ pathfind = <<>>
  /\ ledgerBalance = DecZero
  /\ pc = "idle"
  /\ request = <<>>
  /\ received = <<>>
  /\ response = <<>>
  /\ paths = <<>>
  /\ routes = <<>>
  /\ error = <<>>
  /\ trips = <<>>

PayInit ==
  /\ address \in Addresses
  /\ \E x \in Extras :
       \E s \in SourceAdjustments(x.sourceTag),
          d \in DestinationAdjustments(x.destinationTag),
          p \in {<<>>, <<SomePaths>>},
          app \in {<<>>, <<TRUE>>, <<FALSE>>},
          nds \in {<<>>, <<TRUE>>},
          lq \in {<<>>, <<TRUE>>} :
         paymentArgument =
           [source |-> s, destination |-> d, paths |-> p, memos |-> x.memos,
            invoiceID |-> x.invoiceID, allowPartialPayment |-> app,
            noDirectStoxum |-> nds, limitQuality |-> lq]
  /\ payPc = "idle"
  /\ payError = NoError
  /\ txJSON = <<>>
  /\ payment = <<>>
  /\ prepareCalls = 0
  /\ PathIdle

\* preparePayment up to the call of utils.prepareTransaction
PreparePayment ==
  /\ payPc = "idle"
  /\ LET r == createPaymentTransaction(address, paymentArgument)
     IN /\ paymentArgument' = r.argument
        /\ payment' = <<r.payment>>
        /\ payError' = r.error
        /\ txJSON' = r.txJSON
        /\ IF r.error = NoError
           THEN payPc' = "preparing" /\ prepareCalls' = prepareCalls + 1
           ELSE payPc' = "failed" /\ prepareCalls' = prepareCalls
  /\ UNCHANGED <<address, pathVars>>

\* the promise of utils.prepareTransaction resolves
PrepareTransactionResolves ==
  /\ payPc = "preparing"
  /\ payPc' = "prepared"
  /\ UNCHANGED <<address, paymentArgument, payError, txJSON, payment,
                 prepareCalls, pathVars>>

\* the promise of utils.prepareTransaction rejects
PrepareTransactionRejects ==
  /\ payPc = "preparing"
  /\ payPc' = "failed"
  /\ payError' = "prepareTransaction failed"
  /\ UNCHANGED <<address, paymentArgument, txJSON, payment, prepareCalls,
                 pathVars>>

PayNext ==
  \/ PreparePayment
  \/ PrepareTransactionResolves
  \/ PrepareTransactionRejects

SpecPayment == PayInit /\ [][PayNext]_vars


(***************************************************************************)
(* getPaths: the inputs validate.getPaths accepts, and the answers of the  *)
(* server.                                                                 *)
(***************************************************************************)
One == DecOfNat(1)
Two == DecOfNat(2)

SourceAmounts ==
  {<<>>, <<Amount(XRP, <<One>>, Undefined)>>,
   <<Amount("USD", <<One>>, Undefined)>>, <<Amount("USD", <<One>>, Issuer)>>}

SourceCurrencies ==
  {<<>>, << <<>> >>, << <<[currency |-> "USD", counterparty |-> Undefined]>> >>}

\* without the key "value", with the key holding undefined, with a value
DestinationAmounts ==
  {DestinationAmount(XRP, FALSE, <<>>, Undefined)}
    \cup {DestinationAmount(XRP, TRUE, v, Undefined) :
            v \in {<<>>, <<One>>, <<Two>>}}
    \cup {DestinationAmount("USD", FALSE, <<>>, cp) : cp \in {Undefined, Issuer}}
    \cup {DestinationAmount("USD", TRUE, v, cp) :
            v \in {<<>>, <<One>>}, cp \in {Undefined, Issuer}}

\* 1.5 and 2 native units, in drops
Balances == {Dec(FALSE, <<1, 5>>, 5), Dec(FALSE, <<2>>, 6)}

SomeHops == <<<<[currency |-> "USD", issuer |-> Issuer]>>>>

\* what the server may offer: the native amounts of one unit and of one drop,
\* the issued amount "1", the same written "1.0", and the issued amount "2"
ServerAlternatives ==
  {Alternative(SomeHops, StringAmount(Dec(FALSE, <<1>>, 6))),
   Alternative(SomeHops, StringAmount(One)),
   Alternative(SomeHops, ObjectAmount("USD", Issuer, <<One>>)),
   Alternative(SomeHops,
               ObjectAmount("USD", Issuer, <<Dec(FALSE, <<1, 0>>, -1)>>)),
   Alternative(SomeHops, ObjectAmount("USD", Issuer, <<Two>>))}

AlternativeLists ==
  UNION {[1..n -> ServerAlternatives] : n \in 0..MaxAlts}

DestinationCurrencies ==
  {<<>>, << <<>> >>, << <<"USD">> >>, << <<XRP>> >>, << <<XRP, "USD">> >>}

PathInit ==
  /\ \E s \in SourceAmounts, c \in SourceCurrencies, d \in DestinationAmounts :
       pathfind =
         <<[source |-> [address |-> "rSource", amount |-> s, currencies |-> c],
            destination |-> [address |-> "rDest", amount |-> d]]>>
  /\ ledgerBalance \in Balances
  /\ pc = "idle"
  /\ request = <<>>
  /\ received = <<>>
  /\ response = <<>>
  /\ paths = <<>>
  /\ routes = <<>>
  /\ error = <<>>
  /\ trips = <<>>
  /\ address = "rSource"
  /\ paymentArgument = <<>>
  /\ payPc = "idle"
  /\ payError = NoError
  /\ txJSON = <<>>
  /\ payment = <<>>
  /\ prepareCalls = 0

Rejected(name) == <<[name |-> name, reason |-> Undefined, currency |-> Undefined,
                     accepted |-> <<>>]>>

\* getPaths is called: validate.getPaths, then requestPathFind up to the call
\* of connection.request
GetPaths ==
  /\ pc = "idle"
  /\ LET r == requestPathFind(Get(pathfind))
     IN IF r.error # NoError
        THEN /\ pc' = "failed"
             /\ error' = Rejected(r.error)
             /\ UNCHANGED <<request, trips>>
        ELSE /\ pc' = "awaitPaths"
             /\ request' = r.request
             /\ trips' = Append(trips, "ripple_path_find")
             /\ UNCHANGED error
  /\ UNCHANGED <<pathfind, ledgerBalance, received, response, paths, routes,
                 payVars>>

\* line 59: the route-discovery response arrives and addParams runs in the
\* then-callback of connection.request; the object it returns holds the
\* alternatives array of the response itself (_.assign copies the reference)
PathFindResponds ==
  /\ pc = "awaitPaths"
  /\ \E alts \in AlternativeLists, dc \in DestinationCurrencies,
        echo \in BOOLEAN :
       LET result ==
             [alternatives |-> alts,
              destination_account |-> Get(request).destination_account,
              destination_currencies |-> dc,
              destination_amount |->
                IF echo THEN <<Get(request).destination_amount>> ELSE <<>>]
           p == addParams(Get(request), result)
       IN /\ received' = <<alts>>
          /\ response' = <<result.alternatives>>
          /\ paths' = <<p>>
  /\ pc' = "direct"
  /\ trips' = Append(trips, "ripple_path_find.ok")
  /\ UNCHANGED <<pathfind, ledgerBalance, request, routes, error, payVars>>

\* lines 138-139 and 82-91: the next promise job, conditionallyAddDirectXRPPath
\* up to the call of getXRPBalance
DirectStage ==
  /\ pc = "direct"
  /\ IF skipsDirectXrpPath(Get(paths))
     THEN /\ pc' = "filter"
          /\ UNCHANGED trips
     ELSE /\ pc' = "awaitBalance"
          /\ trips' = Append(trips, "account_info")
  /\ UNCHANGED <<pathfind, ledgerBalance, request, received, response, paths,
                 routes, error, payVars>>

\* the route-discovery request fails
PathFindFails ==
  /\ pc = "awaitPaths"
  /\ pc' = "failed"
  /\ error' = Rejected("ConnectionError")
  /\ trips' = Append(trips, "ripple_path_find.fail")
  /\ UNCHANGED <<pathfind, ledgerBalance, request, received, response, paths,
                 routes, payVars>>

\* lines 89-90: the balance arrives and addDirectXrpPath runs; unshift changes
\* the array in place, and that array is still the one of the response object
BalanceResponds ==
  /\ pc = "awaitBalance"
  /\ LET p == addDirectXrpPath(Get(paths), ledgerBalance)
     IN /\ paths' = <<p>>
        /\ response' = <<p.alternatives>>
  /\ pc' = "filter"
  /\ trips' = Append(trips, "account_info.ok")
  /\ UNCHANGED <<pathfind, ledgerBalance, request, received, routes, error,
                 payVars>>

\* the balance lookup fails
BalanceFails ==
  /\ pc = "awaitBalance"
  /\ pc' = "failed"
  /\ error' = Rejected("ConnectionError")
  /\ trips' = Append(trips, "account_info.fail")
  /\ UNCHANGED <<pathfind, ledgerBalance, request, received, response, paths,
                 routes, payVars>>

\* line 141: _.filter builds a new array for paths.alternatives, the array of
\* the response object stays as it is
FilterStage ==
  /\ pc = "filter"
  /\ paths' = <<filterSourceFundsLowPaths(Get(pathfind), Get(paths))>>
  /\ pc' = "format"
  /\ trips' = Append(trips, "filter")
  /\ UNCHANGED <<pathfind, ledgerBalance, request, received, response, routes,
                 error, payVars>>

\* line 142
FormatStage ==
  /\ pc = "format"
  /\ LET r == formatResponse(Get(pathfind), Get(paths))
     IN /\ routes' = r.routes
        /\ error' = r.error
        /\ pc' = IF Present(r.error) THEN "failed" ELSE "done"
  /\ trips' = Append(trips, "format")
  /\ UNCHANGED <<pathfind, ledgerBalance, request, received, response, paths,
                 payVars>>

PathNext ==
  \/ GetPaths
  \/ PathFindResponds
  \/ DirectStage
  \/ PathFindFails
  \/ BalanceResponds
  \/ BalanceFails
  \/ FilterStage
  \/ FormatStage

SpecPaths == PathInit /\ [][PathNext]_vars

(***************************************************************************)
(* Properties of preparePayment / createPaymentTransaction.                *)
(***************************************************************************)
HasFlag(flags, bit) == BitAnd(flags, bit) = bit

\* exactly one of the two valid pairings, read off the caller's intent
ValidPairing(p) ==
  \/ (Present(p.source.maxAmount) /\ ~Present(p.destination.minAmount))
  \/ (~Present(p.source.maxAmount) /\ Present(p.destination.minAmount))

ResolvedSource(p) ==
  IF Present(p.source.maxAmount)
  THEN Get(p.source.maxAmount) ELSE Get(p.source.amount)

ResolvedDestination(p) ==
  IF Present(p.destination.minAmount)
  THEN Get(p.destination.minAmount) ELSE Get(p.destination.amount)

AllNative(p) ==
  ResolvedSource(p).currency = XRP /\ ResolvedDestination(p).currency = XRP

\* C1: a transaction is produced only for an intent with exactly one of the
\* two pairings (maxAmount without minAmount, or minAmount without
\* maxAmount); every other intent fails with a ValidationError, yields no
\* transaction, and utils.prepareTransaction is never called for it.
C1_OnlyValidPairingCompiles ==
  /\ Present(txJSON) => ValidPairing(paymentArgument)
  /\ (payPc # "idle" /\ ~ValidPairing(paymentArgument)) =>
       /\ payPc = "failed"
       /\ IsValidationError(payError)
       /\ txJSON = <<>>
       /\ prepareCalls = 0

\* the "neither set" combination was submitted by its own source address
\* and was rejected as ambiguous
C1_Witness ==
  /\ payPc = "failed"
  /\ payError = AmbiguousAdjustment
  /\ ~Present(paymentArgument.source.maxAmount)
  /\ ~Present(paymentArgument.destination.minAmount)
  /\ prepareCalls = 0

\* C2: the compiler takes a payment for all-native exactly when both
\* resolved currencies of the intent are the native code; an all-native
\* intent that requests allowPartialPayment fails with a ValidationError,
\* and any other all-native intent that compiles has no SendMax, no
\* DeliverMin and no Paths, whatever paths and flags it carries.
C2_AllNativePayments ==
  payPc # "idle" =>
    /\ isXRPToXRPPayment(Get(payment)) <=> AllNative(paymentArgument)
    /\ AllNative(paymentArgument) =>
         IF paymentArgument.allowPartialPayment = <<TRUE>>
         THEN /\ payPc = "failed"
              /\ IsValidationError(payError)
              /\ txJSON = <<>>
         ELSE Present(txJSON) =>
                /\ Get(txJSON).SendMax = <<>>
                /\ Get(txJSON).DeliverMin = <<>>
                /\ Get(txJSON).Paths = <<>>

\* an all-native intent with paths, both flags and a minimum destination
\* compiled
C2_Witness ==
  /\ Present(txJSON)
  /\ AllNative(paymentArgument)
  /\ Present(paymentArgument.paths)
  /\ paymentArgument.noDirectStoxum = <<TRUE>>
  /\ paymentArgument.limitQuality = <<TRUE>>
  /\ Present(paymentArgument.destination.minAmount)

\* the claimed condition of counterparty defaulting for one amount field
NeedsCounterparty(field) ==
  /\ Present(field)
  /\ Get(field).currency # XRP
  /\ Get(field).counterparty = Undefined

\* C8: the call changes an amount field of the working copy iff the field
\* is present, not native and without counterparty; the counterparty set is
\* the address of the adjustment that owns the field; and the caller's
\* object is the same after the call as before, whether the call fails or
\* not.
C8_CounterpartyDefaulting ==
  [][(payPc = "idle" /\ payPc' # "idle") =>
       /\ paymentArgument' = paymentArgument
       /\ \A side \in {"source", "destination"} : \A key \in AmountKeys :
            LET before == paymentArgument[side][key]
                after == Get(payment')[side][key]
            IN /\ (after # before) <=> NeedsCounterparty(before)
               /\ NeedsCounterparty(before) =>
                    after = <<[Get(before) EXCEPT
                                 !.counterparty = paymentArgument[side].address]>>
               /\ \A k \in DOMAIN Get(payment')[side] \ AmountKeys :
                    Get(payment')[side][k] = paymentArgument[side][k]]_vars

\* a destination minimum without counterparty got the destination's own
\* address, which differs from the source's, while the caller's object and
\* a native source amount stayed as they were
C8_Witness ==
  /\ payPc # "idle"
  /\ paymentArgument.source.address # paymentArgument.destination.address
  /\ Present(paymentArgument.destination.minAmount)
  /\ Get(paymentArgument.destination.minAmount).counterparty = Undefined
  /\ Get(Get(payment).destination.minAmount).counterparty
       = paymentArgument.destination.address
  /\ Present(paymentArgument.source.amount)
  /\ Get(paymentArgument.source.amount).currency = XRP
  /\ Get(payment).source = paymentArgument.source

\* the ceiling of a currency
Ceiling(currency) == IF currency = XRP THEN maxXRPValue ELSE maxIOUValue

\* C9: in a compiled payment that is not all-native, SendMax is the encoded
\* source amount; with a minimum destination Amount is the encoded ceiling of
\* the destination currency, DeliverMin the encoded minimum and the
\* PartialPayment bit is set; with a fixed destination Amount is the encoded
\* destination amount, DeliverMin is absent and the PartialPayment bit is set
\* iff allowPartialPayment is true. In a compiled all-native payment Amount is
\* the encoded destination amount and the PartialPayment bit is clear.
C9_CompiledAmounts ==
  Present(txJSON) =>
    LET p == Get(payment)
        tx == Get(txJSON)
        src == ResolvedSource(p)
        dst == ResolvedDestination(p)
    IN IF ~AllNative(paymentArgument)
       THEN /\ tx.SendMax = <<toStoxumdAmount(src)>>
            /\ IF Present(p.destination.minAmount)
               THEN /\ tx.Amount =
                         toStoxumdAmount(Amount(dst.currency,
                                                <<Ceiling(dst.currency)>>,
                                                dst.counterparty))
                    /\ tx.DeliverMin = <<toStoxumdAmount(dst)>>
                    /\ HasFlag(tx.Flags, PartialPayment)
               ELSE /\ tx.Amount = toStoxumdAmount(dst)
                    /\ tx.DeliverMin = <<>>
                    /\ HasFlag(tx.Flags, PartialPayment)
                         <=> paymentArgument.allowPartialPayment = <<TRUE>>
       ELSE /\ tx.Amount = toStoxumdAmount(dst)
            /\ ~HasFlag(tx.Flags, PartialPayment)

\* an issued-currency minimum was compiled without allowPartialPayment: the
\* bit is set and Amount is not the minimum
C9_Witness ==
  /\ Present(txJSON)
  /\ Present(paymentArgument.destination.minAmount)
  /\ Get(paymentArgument.destination.minAmount).currency # XRP
  /\ paymentArgument.allowPartialPayment = <<>>
  /\ HasFlag(Get(txJSON).Flags, PartialPayment)
  /\ Get(txJSON).Amount # Get(Get(txJSON).DeliverMin)


(***************************************************************************)
(* Properties of getPaths.                                                 *)
(***************************************************************************)
Ran(event) == \E i \in 1..Len(trips) : trips[i] = event
Count(event) == Cardinality({i \in 1..Len(trips) : trips[i] = event})
IsPrefix(a, b) == Len(a) <= Len(b) /\ SubSeq(b, 1, Len(a)) = a

\* the query fixes what is spent and leaves open what is delivered
FixedSpend ==
  /\ Present(Get(pathfind).source.amount)
  /\ ~Present(Get(pathfind).destination.amount.value)

\* the zero-hop alternative, and whether it stands in front of the
\* alternatives the server sent
DirectAlternative == Alternative(<<>>, Get(paths).destination_amount)
Prepended == Get(paths).alternatives = <<DirectAlternative>> \o Get(received)

AcceptsNative == Includes(Get(paths).destination_currencies, XRP)
BalanceCovers ==
  /\ Present(Get(paths).destination_amount.value)
  /\ DecGE(ledgerBalance, Get(Get(paths).destination_amount.value))

\* the direct-route gate, read off the intent and the response
DirectRouteGate ==
  Get(pathfind).destination.amount.currency = XRP /\ AcceptsNative

\* C3 as stated: once the direct-route stage is over the zero-hop alternative
\* is prepended iff the destination lists the native currency and the balance
\* is >= the destination amount's value, and no balance is looked up when the
\* destination does not list the native currency.
C3_AsStated ==
  /\ pc = "filter" => (Prepended <=> (AcceptsNative /\ BalanceCovers))
  /\ Ran("account_info") => AcceptsNative

\* C3, amended: once the direct-route stage is over the zero-hop alternative
\* (empty paths_computed, source_amount the encoded destination amount) is
\* prepended iff the destination amount is in the native currency, the
\* destination lists the native currency and the balance is >= the encoded
\* destination amount; otherwise the alternatives are the ones received; no
\* balance is looked up when the destination amount is an issued-currency
\* amount or the destination does not list the native currency.
C3_DirectRouteInjection ==
  /\ pc = "filter" =>
       /\ Prepended <=>
            /\ Get(pathfind).destination.amount.currency = XRP
            /\ AcceptsNative
            /\ BalanceCovers
       /\ ~Prepended => Get(paths).alternatives = Get(received)
  /\ (Present(paths) /\ pc # "filter" /\ ~Ran("filter")) =>
       Get(paths).alternatives = Get(received)
  /\ Ran("account_info") => DirectRouteGate

\* the balance equals the native destination amount and the alternative was
\* prepended
C3_Witness ==
  /\ pc = "filter"
  /\ Prepended
  /\ Get(pathfind).destination.amount.value = <<Two>>
  /\ DecEq(ledgerBalance, Get(Get(paths).destination_amount.value))
  /\ Len(Get(received)) > 0

\* the value of a stoxumd amount in units of its currency: a native amount is
\* a number of drops
UnitsOf(amount) ==
  IF amount.kind = "string"
  THEN DecShift(Get(amount.value), -6)
  ELSE Get(amount.value)

\* C4: the low-funds filter removes an alternative iff the query fixes the
\* source amount, leaves destination.amount.value unset and the value of the
\* alternative's source amount is not numerically equal to the requested
\* value; an alternative of equal value is kept, and with
\* destination.amount.value set nothing is removed.
C4_FilterRemovesOnlyOtherValues ==
  [][(pc = "filter" /\ pc' = "format") =>
       LET requested == Get(Get(Get(pathfind).source.amount).value)
           Kept(alt) ==
             ~(FixedSpend /\ ~DecEq(UnitsOf(alt.source_amount), requested))
       IN Get(paths').alternatives = SelectSeq(Get(paths).alternatives, Kept)]_vars

\* C5 as stated: a call whose response shows that the destination does not
\* accept the requested currency fails with the NotFoundError that lists the
\* accepted currencies, whatever alternatives were returned.
C5_AsStated ==
  (Ran("format")
     /\ Present(Get(paths).destination_currencies)
     /\ ~Includes(Get(paths).destination_currencies,
                  Get(pathfind).destination.amount.currency)) =>
    /\ pc = "failed"
    /\ routes = <<>>
    /\ error = <<NoPathError("does not accept",
                             Get(pathfind).destination.amount.currency,
                             Get(Get(paths).destination_currencies))>>

\* C5, amended: a call whose response shows that the destination does not
\* accept the requested currency, and in which no alternative is left after
\* the direct-route and low-funds stages, fails with the NotFoundError that
\* lists the accepted currencies; and getPaths never resolves with an empty
\* route set.
C5_UnacceptedCurrencyDiagnosed ==
  /\ (Ran("format")
        /\ Len(Get(paths).alternatives) = 0
        /\ Present(Get(paths).destination_currencies)
        /\ ~Includes(Get(paths).destination_currencies,
                     Get(pathfind).destination.amount.currency)) =>
       /\ pc = "failed"
       /\ routes = <<>>
       /\ error = <<NoPathError("does not accept",
                                Get(pathfind).destination.amount.currency,
                                Get(Get(paths).destination_currencies))>>
  /\ pc = "done" => (Present(routes) /\ Len(Get(routes)) > 0)

\* the server sent alternatives, the low-funds filter removed them all and
\* the call failed naming the accepted currencies
C5_Witness ==
  /\ pc = "failed"
  /\ Present(received)
  /\ Len(Get(received)) > 0
  /\ Present(error)
  /\ Get(error).reason = "does not accept"
  /\ Get(error).accepted = <<XRP>>

\* the orders in which a call may run to its end
Run(lookup) ==
  <<"ripple_path_find", "ripple_path_find.ok">>
    \o (IF lookup THEN <<"account_info", "account_info.ok">> ELSE <<>>)
    \o <<"filter", "format">>
FailedRuns ==
  {<<"ripple_path_find", "ripple_path_find.fail">>,
   <<"ripple_path_find", "ripple_path_find.ok", "account_info",
     "account_info.fail">>}

\* what C6 says of every call but the number of route-discovery requests:
\* requests and stages follow one of the allowed orders (one route-discovery
\* request first, the balance lookup only after its response, filtering and
\* formatting only after every response, nothing twice, nothing after a
\* failed round trip), the lookup is sent only when the gate holds, and a
\* failed round trip fails the call.
OrderedRoundTrips ==
  /\ \E r \in {Run(TRUE), Run(FALSE)} \cup FailedRuns : IsPrefix(trips, r)
  /\ Count("ripple_path_find") + Count("account_info") <= 2
  /\ Ran("account_info") => DirectRouteGate
  /\ (Ran("ripple_path_find.fail") \/ Ran("account_info.fail")) =>
       (pc = "failed" /\ routes = <<>> /\ trips \in FailedRuns)
  /\ pc = "done" => trips \in {Run(TRUE), Run(FALSE)}

\* C6 as stated: every call issues exactly one route-discovery request, then
\* at most one balance lookup, in the order above.
C6_AsStated ==
  /\ OrderedRoundTrips
  /\ pc \in {"done", "failed"} => Count("ripple_path_find") = 1

\* C6, amended: a call that requestPathFind ends with an exception before
\* connection.request (its ValidationError, or the failed conversion of a
\* native destination amount whose value is undefined) issues no request at
\* all; every other call issues exactly one route-discovery request, then at
\* most one balance lookup, in the order above.
C6_AtMostTwoOrderedRoundTrips ==
  /\ OrderedRoundTrips
  /\ pc \in {"done", "failed"} =>
       IF error \in {Rejected("ValidationError"), Rejected("BigNumberError")}
       THEN trips = <<>>
       ELSE Count("ripple_path_find") = 1
  /\ pc # "idle" => (Count("ripple_path_find") = 1 <=> Present(request))

\* a call went through both round trips and both stages
C6_Witness ==
  /\ pc = "done"
  /\ trips = Run(TRUE)

\* what the stated and the amended C7 share: a query with source.amount and
\* destination.amount.value fails with a ValidationError before any request.
C7_Common ==
  (pc # "idle" /\ bothAmountsFixed(Get(pathfind))) =>
    /\ pc = "failed"
    /\ error = Rejected("ValidationError")
    /\ request = <<>>
    /\ trips = <<>>

\* the encoded "-1" of the destination currency
EncodedSentinel ==
  toStoxumdAmount(Amount(Get(pathfind).destination.amount.currency,
                         <<SentinelValue>>, Undefined)).value

\* C7 as stated: ... and a query with source.amount whose
\* destination.amount.value is unset sends a request whose destination_amount
\* carries the encoded "-1" and whose send_max equals the encoded source
\* amount.
C7_AsStated ==
  /\ C7_Common
  /\ (pc # "idle" /\ FixedSpend) =>
       /\ Present(request)
       /\ Ran("ripple_path_find")
       /\ Get(request).destination_amount.value = EncodedSentinel
       /\ Get(request).send_max =
            <<toStoxumdAmount(Get(Get(pathfind).source.amount))>>

\* C7, amended: ... and a query with source.amount whose destination.amount
\* has no key "value" sends a request whose destination_amount carries the
\* encoded "-1" and whose send_max is the encoded source amount, with the
\* source address as issuer when it is an issued-currency amount without
\* counterparty; when an issued-currency destination.amount has the key
\* "value" holding undefined, the request is sent with the same send_max and
\* a destination_amount without value.
C7_FixedSpendRequest ==
  /\ C7_Common
  /\ (pc # "idle" /\ FixedSpend
        /\ (~Get(pathfind).destination.amount.hasValueKey
              \/ Get(pathfind).destination.amount.currency # XRP)) =>
       LET encoded == toStoxumdAmount(Get(Get(pathfind).source.amount))
       IN /\ Present(request)
          /\ Ran("ripple_path_find")
          /\ Get(request).destination_amount.value =
               IF Get(pathfind).destination.amount.hasValueKey
               THEN <<>> ELSE EncodedSentinel
          /\ Get(request).send_max =
               <<IF encoded.kind = "object" /\ encoded.issuer = Undefined
                 THEN [encoded EXCEPT !.issuer = Get(pathfind).source.address]
                 ELSE encoded>>

\* a fixed-spend query in an issued currency without counterparty was sent,
\* its destination amount had no key "value"
C7_Witness ==
  /\ Present(request)
  /\ FixedSpend
  /\ ~Get(pathfind).destination.amount.hasValueKey
  /\ Get(Get(pathfind).source.amount).counterparty = Undefined
  /\ Get(Get(pathfind).source.amount).currency = "USD"
  /\ Get(Get(request).send_max).issuer = "rSource"
  /\ Get(Get(request).destination_amount.value).neg

\* C10: in a fixed-spend query an injected zero-hop alternative carries the
\* native (string) destination amount; after the low-funds filter no
\* alternative with a string source_amount is left, so no zero-hop route is
\* ever returned; and if the server sent no issued-currency alternative of
\* the requested value the call ends in a NotFoundError.
C10_DirectRouteNeverSurvivesFixedSpend ==
  FixedSpend =>
    /\ (pc = "filter" /\ Prepended) =>
         /\ Get(paths).alternatives[1].source_amount.kind = "string"
         /\ Get(paths).alternatives[1].paths_computed = <<>>
    /\ Ran("filter") =>
         \A i \in 1..Len(Get(paths).alternatives) :
           /\ Get(paths).alternatives[i].source_amount.kind # "string"
           /\ Get(paths).alternatives[i].paths_computed # <<>>
    /\ pc = "done" =>
         \A i \in 1..Len(Get(routes)) :
           /\ Get(routes)[i].paths # <<>>
           /\ Get(routes)[i].source.maxAmount.currency # XRP
    /\ (Ran("format")
          /\ ~\E i \in 1..Len(Get(received)) :
                /\ Get(received)[i].source_amount.kind = "object"
                /\ DecEq(Get(Get(received)[i].source_amount.value),
                         Get(Get(Get(pathfind).source.amount).value))) =>
         /\ pc = "failed"
         /\ Get(error).name = "NotFoundError"

\* the zero-hop alternative was injected after a balance lookup, the server
\* had sent native alternatives only, and the call failed
C10_Witness ==
  /\ FixedSpend
  /\ pc = "failed"
  /\ Ran("account_info.ok")
  /\ BalanceCovers
  /\ Len(Get(received)) > 0
  /\ Present(error)
  /\ Get(error).name = "NotFoundError"

=============================================================================
